---- MODULE Spec2Model ----
(***************************************************************************)
(* Process-tree resource monitor (pc_test/monitor_process.py): the module  *)
(* level GPU detection, monitor() with its sampling loop, and the helpers  *)
(* it calls, run against a process table and an NVML driver that change    *)
(* under it; and the launcher that starts it (qa_ollama.py): main() with   *)
(* its two children and terminate_proc.                                    *)
(***************************************************************************)
EXTENDS Integers, Sequences, FiniteSets, TLC

\* ------------------------------------------------------------------ bounds
MaxPid == 2
MaxTicks == 2
MaxEntries == 1
MaxFaults == 1
MaxTreePid == 3

\* --------------------------------------------------------------- constants
RootPid == 1
BytesPerMB == 1048576
NoPid == 0

Pids == 1..MaxPid

\* The values a CSV cell takes: "" is the empty tuple, a number n/d is <<n, d>>.
Empty == <<>>
Num(n, d) == <<n, d>>
IsZero(v) == v # Empty /\ v[1] = 0

\* usedGpuMemory of a listing entry: None, 0, or a byte count.
NoneVal == -1
UsedVals == {NoneVal, 0, BytesPerMB}
GpuPids == {RootPid, 2}
GpuUtils == {0, 40}
GpuMemUsed == 3 * BytesPerMB

LoopPcs == {"enumerate", "filter", "sample", "gpu", "gpumem", "write", "flush", "sleep"}
EndPcs == {"stopped", "crashed", "killed"}
\* the run a row was written by: this one, or an earlier one
ThisRun == "this"
EarlierRun == "earlier"

VARIABLES
    \* the operating system
    live,           \* pids of the running processes
    spawned,        \* pids ever given out (a pid is never given twice)
    parent,         \* pid -> parent pid (NoPid: init, outside the tree)
    disk,           \* rows of out_file readable from disk
    fileExists,     \* out_file exists
    \* the monitor process
    pc, GPU_AVAILABLE, handle, root, buffer, procs, idx,
    cpu_sum, rss_sum_mb, threads_sum, alive,
    gpu_util, gpu_mem, proc_tree_gpu_mem,
    report, ticks,
    \* what the run has seen so far (observation only)
    atCall,         \* the root and the file as monitor() found them, kept
                    \* until the log is open and warmed up
    nvmlCalls,      \* whether an NVML query was attempted after the detection
    faults,         \* transient failures injected so far
    rootGone,       \* the root was already gone when this tick began
    deadAtRead,     \* pids of the snapshot already gone when their read began
    readFailed,     \* pids of the snapshot one of whose reads raised
    cpuCalls,       \* pid -> how often cpu_percent was called on the handle
                    \* the monitor holds for it: "none", "one" or "many"
    qCompute, qGraphics,         \* what the two listings returned this tick
    failures,       \* kinds of failure absorbed in this tick
    exc,            \* last exception raised in the monitor ...
    excAt,          \* ... and the place it reached the monitor at
    \* the launcher, qa_ollama.py
    lpc,            \* where main() is
    ollama_proc, monitor_proc,   \* the two locals of main(): "None" or "Popen"
    child,          \* child name -> "unstarted", "running", "terminating"
                    \* (terminate() was sent, still running) or "exited"
    cleaning, tstep,             \* the terminate_proc call under way, its place
    result, code,   \* how main() ends: "none", "returned" with code, "raised"
    readyAnswered,  \* the readiness poll got its answer from the ollama child
    monitorArg,     \* the pid handed to the monitor
    termLog,        \* the children terminate() was called on, in order
    killed          \* the children kill() was called on

osVars == <<live, spawned, parent>>
fileVars == <<disk, fileExists>>
gpuModVars == <<GPU_AVAILABLE, handle>>
sumVars == <<cpu_sum, rss_sum_mb, threads_sum, alive, deadAtRead, readFailed>>
gpuRowVars == <<gpu_util, gpu_mem, proc_tree_gpu_mem, qCompute, qGraphics>>
startVars == <<root, atCall>>
vars == <<live, spawned, parent, disk, fileExists,
          pc, GPU_AVAILABLE, handle, root, buffer, procs, idx,
          cpu_sum, rss_sum_mb, threads_sum, alive,
          gpu_util, gpu_mem, proc_tree_gpu_mem, report, ticks,
          atCall, nvmlCalls, faults, rootGone,
          deadAtRead, readFailed, cpuCalls,
          qCompute, qGraphics, failures, exc, excAt,
          lpc, ollama_proc, monitor_proc, child, cleaning, tstep, result, code,
          readyAnswered, monitorArg, termLog, killed>>
launcherVars == <<lpc, ollama_proc, monitor_proc, child, cleaning, tstep, result, code,
                  readyAnswered, monitorArg, termLog, killed>>

\* ----------------------------------------------------------------- helpers
Min(S) == CHOOSE m \in S : \A o \in S : m <= o

RECURSIVE SeqOf(_)
SeqOf(S) == IF S = {} THEN <<>> ELSE LET m == Min(S) IN <<m>> \o SeqOf(S \ {m})

Range(s) == {s[i] : i \in 1..Len(s)}

\* What the three reads of process p return (cpu percent, rss in MB, threads):
\* a different binary digit per process, so that a sum tells which processes
\* are in it.
CpuOf(p) == 2 ^ (p - 1)
RssOf(p) == 2 ^ (p - 1)
ThreadsOf(p) == 2 ^ (p - 1)
InSum(total) == {p \in Pids : (total \div (2 ^ (p - 1))) % 2 = 1}

\* ------------------------------------------------------------------- rows
Header ==
    [kind |-> "header", run |-> ThisRun, time |-> 0,
     cpu_total_percent |-> 0, rss_total_mb |-> 0, threads_total |-> 0, num_procs |-> 0,
     gpu_util |-> Empty, gpu_mem_used_mb |-> Empty, proc_tree_gpu_mem_mb |-> Empty]

DataRow(r, t, c, m, th, n, gu, gm, gt) ==
    [kind |-> "data", run |-> r, time |-> t,
     cpu_total_percent |-> c, rss_total_mb |-> m, threads_total |-> th, num_procs |-> n,
     gpu_util |-> gu, gpu_mem_used_mb |-> gm, proc_tree_gpu_mem_mb |-> gt]

IsHeader(r) == r.kind = "header"
IsData(r) == r.kind = "data"
Headers(s) == {i \in 1..Len(s) : IsHeader(s[i])}
DataRows(s) == {i \in 1..Len(s) : IsData(s[i])}

\* ------------------------------------------------- module level, lines 6-14
\* o: "ok", or where the try block raised: "init_fail" (the import or
\* nvmlInit, before GPU_AVAILABLE is set), "handle_fail"
\* (nvmlDeviceGetHandleByIndex, after it was set). Every raise lands in the
\* except clause.
GpuDetect_keepsFlag(o) ==
    IF o = "ok" THEN [avail |-> TRUE, handle |-> TRUE]
    ELSE IF o = "handle_fail" THEN [avail |-> TRUE, handle |-> FALSE]
    ELSE [avail |-> FALSE, handle |-> FALSE]

GpuDetect(o) ==
    IF o = "ok" THEN [avail |-> TRUE, handle |-> TRUE]
    ELSE [avail |-> FALSE, handle |-> FALSE]

\* ------------------------------------------------------------ _safe_process
SafeProcess_always(pid, l) == pid

SafeProcess(pid, l) == IF pid \in l THEN pid ELSE NoPid

\* ----------------------------------------------------------- _get_proc_tree
Kids(S, l, par) == {p \in l : par[p] \in S}

RECURSIVE Closure(_, _, _)
Closure(S, l, par) ==
    LET n == S \cup Kids(S, l, par) IN IF n = S THEN S ELSE Closure(n, l, par)

\* root.children(recursive=True): the live processes below rt in the ppid map
Descendants(rt, l, par) == Closure({rt}, l, par) \ {rt}

\* lines 26-30: [root] extended by the children, unless the listing raised
EnumerateTree(rt, l, par, childrenRaises) ==
    [exc |-> "none",
     procs |-> <<rt>> \o (IF childrenRaises THEN <<>> ELSE SeqOf(Descendants(rt, l, par)))]

RECURSIVE UniqLoop_keepsDead(_, _, _, _, _)
UniqLoop_keepsDead(ps, i, seen, uniq, l) ==
    IF i > Len(ps) THEN uniq
    ELSE IF ps[i] \in seen THEN UniqLoop_keepsDead(ps, i + 1, seen, uniq, l)
    ELSE UniqLoop_keepsDead(ps, i + 1, seen \cup {ps[i]}, Append(uniq, ps[i]), l)

\* lines 32-43: the loop over procs from position i; is_running() is true of
\* the processes in the table
RECURSIVE UniqLoop(_, _, _, _, _)
UniqLoop(ps, i, seen, uniq, l) ==
    IF i > Len(ps) THEN uniq
    ELSE IF ps[i] \in seen THEN UniqLoop(ps, i + 1, seen, uniq, l)
    ELSE UniqLoop(ps, i + 1, seen \cup {ps[i]},
                  IF ps[i] \in l THEN Append(uniq, ps[i]) ELSE uniq, l)

Uniq(ps, l) == UniqLoop(ps, 1, {}, <<>>, l)

GetProcTree(rt, l, par, childrenRaises) ==
    Uniq(EnumerateTree(rt, l, par, childrenRaises).procs, l)

\* The handles behind a listing: line 26 puts the root handle monitor() holds
\* into the list, line 28 adds the Process objects children() builds for the
\* call, on which nothing was called yet.
ListedHandles(calls, rt) == [p \in Pids |-> IF p = rt THEN calls[p] ELSE "none"]

\* one more cpu_percent call on a handle
Called(c) == IF c = "none" THEN "one" ELSE "many"

\* -------------------------------------------------------------- _warmup_cpu
\* lines 48-52: one call on every handle of the list, the value dropped
WarmupCpu(ps, calls) ==
    [p \in Pids |-> IF p \in Range(ps) THEN Called(calls[p]) ELSE calls[p]]

\* ----------------------------------------------------- _sum_cpu_mem_threads
\* One iteration of the loop, lines 61-68, on process p. failAt: 0 when the
\* three reads succeed, else the read (1 cpu_percent, 2 memory_info,
\* 3 num_threads) that raised.
SampleProc_raises(acc, p, failAt) ==
    [exc |-> IF failAt = 0 THEN "none" ELSE "NoSuchProcess",
     cpu |-> IF failAt = 1 THEN acc.cpu ELSE acc.cpu + CpuOf(p),
     rss |-> IF failAt \in {1, 2} THEN acc.rss ELSE acc.rss + RssOf(p),
     threads |-> IF failAt = 0 THEN acc.threads + ThreadsOf(p) ELSE acc.threads,
     alive |-> IF failAt = 0 THEN acc.alive + 1 ELSE acc.alive]

SampleProc(acc, p, failAt) ==
    [exc |-> "none",
     cpu |-> IF failAt = 1 THEN acc.cpu ELSE acc.cpu + CpuOf(p),
     rss |-> IF failAt \in {1, 2} THEN acc.rss ELSE acc.rss + RssOf(p),
     threads |-> IF failAt = 0 THEN acc.threads + ThreadsOf(p) ELSE acc.threads,
     alive |-> IF failAt = 0 THEN acc.alive + 1 ELSE acc.alive]

\* ---------------------------------------------------------- _get_gpu_overall
\* o: "ok", "util_raises" or "mem_raises"; a query on a missing handle raises.
GetGpuOverall_raises(avail, h, o, u) ==
    IF ~avail THEN [exc |-> "none", util |-> Empty, mem |-> Empty, queried |-> FALSE]
    ELSE IF h /\ o = "ok"
         THEN [exc |-> "none", util |-> Num(u, 1), mem |-> Num(GpuMemUsed, BytesPerMB),
               queried |-> TRUE]
         ELSE [exc |-> "NVMLError", util |-> Empty, mem |-> Empty, queried |-> TRUE]

GetGpuOverall(avail, h, o, u) ==
    IF ~avail THEN [exc |-> "none", util |-> Empty, mem |-> Empty, queried |-> FALSE]
    ELSE IF h /\ o = "ok"
         THEN [exc |-> "none", util |-> Num(u, 1), mem |-> Num(GpuMemUsed, BytesPerMB),
               queried |-> TRUE]
         ELSE [exc |-> "none", util |-> Empty, mem |-> Empty, queried |-> TRUE]

\* ----------------------------------------------------- _get_gpu_mem_for_pids
Entries == [pid : GpuPids, usedGpuMemory : UsedVals]

RECURSIVE SeqsUpTo(_, _)
SeqsUpTo(S, n) ==
    IF n = 0 THEN {<<>>}
    ELSE LET shorter == SeqsUpTo(S, n - 1)
         IN shorter \cup {Append(s, e) : s \in shorter, e \in S}

\* what one nvmlDeviceGet...RunningProcesses call does: raise, or return a list
Listings ==
    {[raises |-> TRUE, entries |-> <<>>]}
        \cup {[raises |-> FALSE, entries |-> s] : s \in SeqsUpTo(Entries, MaxEntries)}

NoListing == [raises |-> TRUE, entries |-> <<>>]

\* the listings a tick of the loop is run against
TickListings ==
    {[raises |-> TRUE, entries |-> <<>>]}
        \cup {[raises |-> FALSE, entries |-> s] : s \in SeqsUpTo(Entries, 1)}

RECURSIVE ScanEntries_countsZero(_, _, _, _)
ScanEntries_countsZero(es, i, target_pids, acc) ==
    IF i > Len(es) THEN acc
    ELSE ScanEntries_countsZero(es, i + 1, target_pids,
            IF es[i].pid \in target_pids /\ es[i].usedGpuMemory # NoneVal
            THEN [used_bytes |-> acc.used_bytes + es[i].usedGpuMemory, found |-> TRUE]
            ELSE acc)

\* lines 97-103 and 106-112: one try block, from entry i of the listing
RECURSIVE ScanEntries(_, _, _, _)
ScanEntries(es, i, target_pids, acc) ==
    IF i > Len(es) THEN acc
    ELSE ScanEntries(es, i + 1, target_pids,
            IF es[i].pid \in target_pids /\ es[i].usedGpuMemory \notin {NoneVal, 0}
            THEN [used_bytes |-> acc.used_bytes + es[i].usedGpuMemory, found |-> TRUE]
            ELSE acc)

ScanListing(lst, h, target_pids, acc) ==
    IF lst.raises \/ ~h THEN acc ELSE ScanEntries(lst.entries, 1, target_pids, acc)

GetGpuMemForPids(avail, h, compute, graphics, target_pids) ==
    IF ~avail THEN [exc |-> "none", mb |-> Empty, queried |-> FALSE]
    ELSE LET a0 == [used_bytes |-> 0, found |-> FALSE]
             a1 == ScanListing(compute, h, target_pids, a0)
             a2 == ScanListing(graphics, h, target_pids, a1)
         IN [exc |-> "none",
             mb |-> IF ~a2.found THEN Empty ELSE Num(a2.used_bytes, BytesPerMB),
             queried |-> TRUE]

\* ------------------------------------------------------------------ monitor
OpenLog_append(d) == d

\* open(out_file, "w"): the content the file has right after the open
OpenLog(d) == <<>>

\* Of a row that reached the disk the model keeps what identifies it; its
\* cells are those it had in the buffer.
Stored(r) == [kind |-> r.kind, run |-> r.run, time |-> r.time]

FlushLog_lost(d, b) == d

\* f.flush(), and the close at the end of the with block
FlushLog(d, b) == d \o [i \in 1..Len(b) |-> Stored(b[i])]

LoopExcept_noInterrupt(e) ==
    IF e = "NoSuchProcess" THEN [pc |-> "stopped", report |-> "Process ended."]
    ELSE [pc |-> "crashed", report |-> "Traceback"]

\* the except clauses of the loop, lines 171-176; anything else propagates
LoopExcept(e) ==
    IF e = "NoSuchProcess" THEN [pc |-> "stopped", report |-> "Process ended."]
    ELSE IF e = "KeyboardInterrupt" THEN [pc |-> "stopped", report |-> "Stopped by user."]
    ELSE [pc |-> "crashed", report |-> "Traceback"]

\* -------------------------------------------------------------- the system
Children == {"ollama", "monitor"}

\* main() of qa_ollama.py before its first line, lines 135-136
LauncherIdle ==
    /\ lpc = "popen_ollama"
    /\ ollama_proc = "None" /\ monitor_proc = "None"
    /\ child = [c \in Children |-> "unstarted"]
    /\ cleaning = "monitor" /\ tstep = "poll"
    /\ result = "none" /\ code = 0
    /\ readyAnswered = FALSE /\ monitorArg = NoPid
    /\ termLog = <<>> /\ killed = {}

NotCalled == [called |-> FALSE, rootLive |-> FALSE, exists |-> FALSE, rows |-> <<>>]

OldHeader == [Header EXCEPT !.run = EarlierRun]
OldRow == DataRow(EarlierRun, 0, 0, 0, 0, 0, Empty, Empty, Empty)

Init ==
    /\ live \in {{RootPid}, {}}
    /\ spawned = {RootPid}
    /\ parent = [p \in Pids |-> NoPid]
    /\ fileExists \in BOOLEAN
    /\ disk = IF fileExists THEN <<Stored(OldHeader), Stored(OldRow)>> ELSE <<>>
    /\ pc = "import"
    /\ GPU_AVAILABLE = FALSE /\ handle = FALSE /\ atCall = NotCalled
    /\ root = NoPid /\ buffer = <<>> /\ procs = <<>> /\ idx = 1
    /\ cpu_sum = 0 /\ rss_sum_mb = 0 /\ threads_sum = 0 /\ alive = 0
    /\ gpu_util = Empty /\ gpu_mem = Empty /\ proc_tree_gpu_mem = Empty
    /\ report = "" /\ ticks = 0
    /\ nvmlCalls = FALSE /\ faults = 0 /\ rootGone = FALSE
    /\ deadAtRead = {} /\ readFailed = {}
    /\ cpuCalls = [p \in Pids |-> "none"]
    /\ qCompute = NoListing /\ qGraphics = NoListing
    /\ failures = {} /\ exc = "none" /\ excAt = "none"
    /\ LauncherIdle

\* the locals of a tick
tickVars == <<procs, idx, sumVars, gpuRowVars, failures, rootGone, cpuCalls>>

\* The locals of a tick are not read again once the tick is over, or once
\* monitor() is left: they are put back to their first values. (failures
\* stays until the next tick begins.)
ResetLocals ==
    /\ procs' = <<>> /\ idx' = 1
    /\ cpu_sum' = 0 /\ rss_sum_mb' = 0 /\ threads_sum' = 0 /\ alive' = 0
    /\ deadAtRead' = {} /\ readFailed' = {}
    /\ gpu_util' = Empty /\ gpu_mem' = Empty /\ proc_tree_gpu_mem' = Empty
    /\ rootGone' = FALSE
    /\ cpuCalls' = ListedHandles(cpuCalls, root)
    /\ UNCHANGED <<qCompute, qGraphics>>

\* a transient failure may be injected while the budget lasts
MayFail(isFault) == isFault => faults < MaxFaults
Charge(isFault) == faults' = IF isFault THEN faults + 1 ELSE faults

\* An exception e reaches the monitor at its current place: inside the loop the
\* except clauses decide, elsewhere it propagates; leaving the with block
\* closes the file.
Raise(e) ==
    LET h == IF pc \in LoopPcs THEN LoopExcept(e)
             ELSE [pc |-> "crashed", report |-> "Traceback"]
    IN /\ pc' = h.pc
       /\ report' = h.report
       /\ exc' = e
       /\ excAt' = pc
       /\ disk' = FlushLog(disk, buffer)
       /\ buffer' = <<>>
       /\ ResetLocals /\ failures' = {}
       /\ UNCHANGED <<fileExists, ticks, nvmlCalls, faults>>
       /\ UNCHANGED <<gpuModVars, startVars>>

\* lines 7-14, when the module is loaded
ImportModule ==
    /\ pc = "import"
    /\ \E o \in {"ok", "init_fail", "handle_fail"} :
          /\ GPU_AVAILABLE' = GpuDetect(o).avail
          /\ handle' = GpuDetect(o).handle
    /\ pc' = "start"
    /\ UNCHANGED <<osVars, fileVars, buffer, report, ticks, nvmlCalls, faults,
                   startVars, tickVars, exc, excAt>>
    /\ UNCHANGED launcherVars

\* lines 120-139: the root lookup, the open and the header
Start ==
    /\ pc = "start"
    /\ atCall' = [called |-> TRUE, rootLive |-> RootPid \in live,
                  exists |-> fileExists, rows |-> disk]
    /\ root' = SafeProcess(RootPid, live)
    /\ IF root' = NoPid
       THEN /\ report' = "Target process not found."
            /\ pc' = "stopped"
            /\ UNCHANGED <<fileVars, buffer>>
       ELSE /\ disk' = OpenLog(disk)
            /\ fileExists' = TRUE
            /\ buffer' = <<Header>>
            /\ pc' = "warmup"
            /\ UNCHANGED report
    /\ UNCHANGED <<osVars, gpuModVars, ticks, nvmlCalls, faults, tickVars, exc, excAt>>
    /\ UNCHANGED launcherVars

\* lines 142-145
Warmup ==
    /\ pc = "warmup"
    /\ \E childrenRaises \in BOOLEAN :
          /\ MayFail(childrenRaises) /\ Charge(childrenRaises)
          /\ procs' = GetProcTree(root, live, parent, childrenRaises)
    /\ cpuCalls' = WarmupCpu(procs', ListedHandles(cpuCalls, root))
    /\ pc' = "enumerate"
    /\ atCall' = NotCalled
    /\ UNCHANGED <<osVars, fileVars, gpuModVars, root, buffer, idx,
                   sumVars, gpuRowVars, report, ticks, nvmlCalls,
                   failures, rootGone, exc, excAt>>
    /\ UNCHANGED launcherVars

\* line 150, first half: _get_proc_tree up to the children listing
Enumerate ==
    /\ pc = "enumerate"
    /\ ticks < MaxTicks
    /\ \E childrenRaises \in BOOLEAN :
          /\ MayFail(childrenRaises)
          /\ LET r == EnumerateTree(root, live, parent, childrenRaises)
             IN IF r.exc # "none" THEN Raise(r.exc)
                ELSE /\ Charge(childrenRaises)
                     /\ procs' = r.procs
                     /\ cpuCalls' = ListedHandles(cpuCalls, root)
                     /\ failures' = IF childrenRaises THEN {"enumeration"} ELSE {}
                     /\ rootGone' = (RootPid \notin live)
                     /\ pc' = "filter"
                     /\ UNCHANGED <<fileVars, gpuModVars, startVars, buffer, idx,
                                    sumVars, gpuRowVars, report, ticks,
                                    nvmlCalls, exc, excAt>>
    /\ UNCHANGED osVars
    /\ UNCHANGED launcherVars

\* line 150, second half: the de-duplication and the is_running filter;
\* line 152 up to the loop of _sum_cpu_mem_threads
Filter ==
    /\ pc = "filter"
    /\ procs' = Uniq(procs, live)
    /\ cpu_sum' = 0 /\ rss_sum_mb' = 0 /\ threads_sum' = 0 /\ alive' = 0
    /\ idx' = 1
    /\ pc' = IF procs' = <<>> THEN "gpu" ELSE "sample"
    /\ UNCHANGED <<osVars, fileVars, gpuModVars, startVars, buffer,
                   gpuRowVars, report, ticks, nvmlCalls, faults,
                   deadAtRead, readFailed, cpuCalls, rootGone, exc, excAt>>
    /\ failures' = IF \E i \in 1..Len(procs) : procs[i] # root /\ procs[i] \notin live
                   THEN failures \cup {"raced"} ELSE failures
    /\ UNCHANGED launcherVars

\* the process p leaves the table; its children go to init
ExitOf(p) ==
    /\ live' = live \ {p}
    /\ parent' = [q \in DOMAIN parent |-> IF parent[q] = p THEN NoPid ELSE parent[q]]
    /\ UNCHANGED spawned

\* line 152: one iteration of the loop of _sum_cpu_mem_threads. A read of a
\* process that is gone raises at cpu_percent; a live process may exit, or
\* refuse access, at any of the three reads.
SampleOne ==
    /\ pc = "sample"
    /\ idx <= Len(procs)
    /\ LET p == procs[idx] IN
       \E failAt \in 0..3, exits \in BOOLEAN :
          /\ p \notin live => (failAt = 1 /\ ~exits)
          /\ exits => failAt # 0
          /\ MayFail(p \in live /\ failAt # 0)
          /\ LET r == SampleProc([cpu |-> cpu_sum, rss |-> rss_sum_mb,
                                  threads |-> threads_sum, alive |-> alive], p, failAt)
             IN IF r.exc # "none" THEN Raise(r.exc) /\ UNCHANGED osVars
                ELSE /\ Charge(p \in live /\ failAt # 0)
                     /\ cpu_sum' = r.cpu
                     /\ rss_sum_mb' = r.rss
                     /\ threads_sum' = r.threads
                     /\ alive' = r.alive
                     /\ deadAtRead' = IF p \in live THEN deadAtRead ELSE deadAtRead \cup {p}
                     /\ readFailed' = IF failAt = 0 THEN readFailed ELSE readFailed \cup {p}
                     /\ cpuCalls' = IF failAt = 1 THEN cpuCalls
                                    ELSE [cpuCalls EXCEPT ![p] = Called(@)]
                     /\ failures' = IF failAt = 0 THEN failures ELSE failures \cup {"read"}
                     /\ IF exits THEN ExitOf(p) ELSE UNCHANGED osVars
                     /\ idx' = idx + 1
                     /\ pc' = IF idx = Len(procs) THEN "gpu" ELSE "sample"
                     /\ UNCHANGED <<fileVars, gpuModVars, startVars, buffer, procs,
                                    gpuRowVars, report, ticks,
                                    nvmlCalls, rootGone, exc, excAt>>
    /\ UNCHANGED launcherVars

\* line 154
GpuOverall ==
    /\ pc = "gpu"
    /\ \E o \in {"ok", "util_raises", "mem_raises"}, u \in GpuUtils :
          /\ MayFail(GPU_AVAILABLE /\ o # "ok")
          /\ LET r == GetGpuOverall(GPU_AVAILABLE, handle, o, u)
             IN IF r.exc # "none" THEN Raise(r.exc)
                ELSE /\ Charge(GPU_AVAILABLE /\ o # "ok")
                     /\ gpu_util' = r.util
                     /\ gpu_mem' = r.mem
                     /\ nvmlCalls' = (nvmlCalls \/ r.queried)
                     /\ failures' = IF r.queried /\ (~handle \/ o # "ok")
                                    THEN failures \cup {"gpu_overall"} ELSE failures
                     /\ pc' = "gpumem"
                     /\ UNCHANGED <<fileVars, gpuModVars, startVars, buffer, procs, idx,
                                    sumVars, proc_tree_gpu_mem, qCompute, qGraphics,
                                    report, ticks, rootGone, cpuCalls, exc, excAt>>
    /\ UNCHANGED osVars
    /\ UNCHANGED launcherVars

\* line 155
GpuMem ==
    /\ pc = "gpumem"
    /\ \E compute \in TickListings, graphics \in TickListings :
          /\ MayFail(GPU_AVAILABLE /\ (compute.raises \/ graphics.raises))
          /\ LET r == GetGpuMemForPids(GPU_AVAILABLE, handle, compute, graphics,
                                       Range(procs))
             IN IF r.exc # "none" THEN Raise(r.exc)
                ELSE /\ Charge(GPU_AVAILABLE /\ (compute.raises \/ graphics.raises))
                     /\ proc_tree_gpu_mem' = r.mb
                     /\ nvmlCalls' = (nvmlCalls \/ r.queried)
                     /\ failures' = IF r.queried
                                       /\ (~handle \/ compute.raises \/ graphics.raises)
                                    THEN failures \cup {"gpu_listing"} ELSE failures
                     /\ pc' = "write"
                     /\ UNCHANGED <<fileVars, gpuModVars, startVars, buffer, procs, idx,
                                    sumVars, gpu_util, gpu_mem, qCompute, qGraphics,
                                    report, ticks, rootGone, cpuCalls, exc, excAt>>
    /\ UNCHANGED osVars
    /\ UNCHANGED launcherVars

\* lines 157-166: the row goes to the file object's buffer
WriteRow ==
    /\ pc = "write"
    /\ buffer' = Append(buffer,
                    DataRow(ThisRun, ticks, cpu_sum, rss_sum_mb, threads_sum, alive,
                            gpu_util, gpu_mem, proc_tree_gpu_mem))
    /\ pc' = "flush"
    /\ UNCHANGED <<osVars, fileVars, gpuModVars, startVars, report, ticks, nvmlCalls,
                   faults, tickVars, exc, excAt>>
    /\ UNCHANGED launcherVars

\* line 168; the tick is complete when the flush returns
Flush ==
    /\ pc = "flush"
    /\ disk' = FlushLog(disk, buffer)
    /\ buffer' = <<>>
    /\ ticks' = ticks + 1
    /\ pc' = "sleep"
    /\ ResetLocals
    /\ UNCHANGED <<osVars, fileExists, gpuModVars, startVars, report, nvmlCalls,
                   faults, failures, exc, excAt>>
    /\ UNCHANGED launcherVars

\* line 169: the sleep returns
Sleep ==
    /\ pc = "sleep"
    /\ pc' = "enumerate"
    /\ UNCHANGED <<osVars, fileVars, gpuModVars, startVars, buffer, report, ticks,
                   nvmlCalls, faults, tickVars, exc, excAt>>
    /\ UNCHANGED launcherVars

\* the operator presses Ctrl-C while monitor() runs
Interrupt ==
    /\ pc \in LoopPcs \cup {"warmup"}
    /\ Raise("KeyboardInterrupt")
    /\ UNCHANGED osVars
    /\ UNCHANGED launcherVars

\* the monitor process is terminated from outside: what its file object
\* still buffers is lost
MonitorKilled ==
    /\ pc \in LoopPcs \cup {"warmup"}
    /\ pc' = "killed"
    /\ buffer' = <<>>
    /\ ResetLocals /\ failures' = {}
    /\ UNCHANGED <<osVars, fileVars, gpuModVars, startVars, report, ticks,
                   nvmlCalls, faults, exc, excAt>>
    /\ UNCHANGED launcherVars

\* a process starts under a live parent, with a new pid
Spawn ==
    /\ spawned # Pids
    /\ LET p == Min(Pids \ spawned) IN
       \E par \in live :
          /\ live' = live \cup {p}
          /\ spawned' = spawned \cup {p}
          /\ parent' = [parent EXCEPT ![p] = par]
    /\ UNCHANGED <<fileVars, pc, gpuModVars, startVars, buffer, report, ticks,
                   nvmlCalls, faults, tickVars, exc, excAt>>
    /\ UNCHANGED launcherVars

\* a process exits or is killed
Exit ==
    /\ \E p \in live : ExitOf(p)
    /\ UNCHANGED <<fileVars, pc, gpuModVars, startVars, buffer, report, ticks,
                   nvmlCalls, faults, tickVars, exc, excAt>>
    /\ UNCHANGED launcherVars

Next ==
    \/ ImportModule
    \/ Start
    \/ Warmup
    \/ Enumerate
    \/ Filter
    \/ SampleOne
    \/ GpuOverall
    \/ GpuMem
    \/ WriteRow
    \/ Flush
    \/ Sleep
    \/ Interrupt
    \/ MonitorKilled
    \/ Spawn
    \/ Exit

Spec == Init /\ [][Next]_vars

\* ------------------------------------------- _get_gpu_mem_for_pids, alone
\* The query of line 155 on every pair of listings and every pid set a tree
\* can have (empty, or the root with descendants).
TreePidSets == {{}} \cup {S \in SUBSET Pids : RootPid \in S}

InitGpu ==
    /\ live = {RootPid}
    /\ spawned = {RootPid}
    /\ parent = [p \in Pids |-> NoPid]
    /\ fileExists = TRUE
    /\ disk = <<>>
    /\ pc = "gpumem"
    /\ GPU_AVAILABLE \in BOOLEAN /\ handle = GPU_AVAILABLE /\ atCall = NotCalled
    /\ root = RootPid /\ buffer = <<Header>> /\ idx = 1
    /\ \E S \in TreePidSets : procs = SeqOf(S)
    /\ cpu_sum = 0 /\ rss_sum_mb = 0 /\ threads_sum = 0 /\ alive = 0
    /\ gpu_util = Empty /\ gpu_mem = Empty /\ proc_tree_gpu_mem = Empty
    /\ report = "" /\ ticks = 0
    /\ nvmlCalls = FALSE /\ faults = 0 /\ rootGone = FALSE
    /\ deadAtRead = {} /\ readFailed = {}
    /\ cpuCalls = [p \in Pids |-> "none"]
    /\ qCompute \in Listings /\ qGraphics \in Listings
    /\ failures = {} /\ exc = "none" /\ excAt = "none"
    /\ LauncherIdle

GpuMemQuery ==
    /\ pc = "gpumem"
    /\ LET r == GetGpuMemForPids(GPU_AVAILABLE, handle, qCompute, qGraphics, Range(procs))
       IN /\ proc_tree_gpu_mem' = r.mb
          /\ nvmlCalls' = r.queried
    /\ pc' = "write"
    /\ UNCHANGED <<osVars, fileVars, gpuModVars, startVars, buffer, procs, idx, sumVars,
                   gpu_util, gpu_mem, qCompute, qGraphics, report, ticks, faults,
                   rootGone, cpuCalls, failures, exc, excAt>>
    /\ UNCHANGED launcherVars

NextGpu == GpuMemQuery

SpecGpu == InitGpu /\ [][NextGpu]_vars

\* --------------------------------------------------- _get_proc_tree, alone
\* The resolver of line 150 on every process table: pids are given out in
\* rising order, a process has a live parent or was handed to init, and the
\* root handle may be that of a process that is gone. Processes go on exiting
\* while the resolver runs.
TreePids == 1..MaxTreePid

ProcessTables ==
    {t \in [live : SUBSET TreePids, parent : [TreePids -> {NoPid} \cup TreePids]] :
        \A p \in TreePids :
            \/ t.parent[p] = NoPid
            \/ p \in t.live /\ t.parent[p] \in t.live /\ t.parent[p] < p}

InitTree ==
    /\ \E t \in ProcessTables : live = t.live /\ parent = t.parent
    /\ spawned = TreePids
    /\ fileExists = TRUE
    /\ disk = <<>>
    /\ pc = "enumerate"
    /\ GPU_AVAILABLE = FALSE /\ handle = FALSE /\ atCall = NotCalled
    /\ root = RootPid /\ buffer = <<Header>> /\ procs = <<>> /\ idx = 1
    /\ cpu_sum = 0 /\ rss_sum_mb = 0 /\ threads_sum = 0 /\ alive = 0
    /\ gpu_util = Empty /\ gpu_mem = Empty /\ proc_tree_gpu_mem = Empty
    /\ report = "" /\ ticks = 0
    /\ nvmlCalls = FALSE /\ faults = 0 /\ rootGone = FALSE
    /\ deadAtRead = {} /\ readFailed = {}
    /\ cpuCalls = [p \in Pids |-> "none"]
    /\ qCompute = NoListing /\ qGraphics = NoListing
    /\ failures = {} /\ exc = "none" /\ excAt = "none"
    /\ LauncherIdle

NextTree ==
    \/ Enumerate
    \/ Filter
    \/ Exit

SpecTree == InitTree /\ [][NextTree]_vars

\* ------------------------------------------------------ qa_ollama.py, main
monitorVars == <<live, spawned, parent, disk, fileExists,
                 pc, GPU_AVAILABLE, handle, root, buffer, procs, idx,
                 cpu_sum, rss_sum_mb, threads_sum, alive,
                 gpu_util, gpu_mem, proc_tree_gpu_mem, report, ticks,
                 atCall, nvmlCalls, faults, rootGone,
                 deadAtRead, readFailed, cpuCalls,
                 qCompute, qGraphics, failures, exc, excAt>>

\* the places of the try block, lines 139-188
TryPcs == {"popen_ollama", "poll_ready", "popen_monitor", "idle_warmup", "ask",
           "idle_after"}

\* wait_for_ollama_ready, lines 77-89: True when a poll of the loop got status
\* 200 before the deadline; a poll that raised or got another status is
\* followed by the next one
WaitForOllamaReady(got200) == got200

\* the except clauses of main(), lines 190-198; anything else propagates
MainExcept(e) ==
    IF e = "ConnectionError" THEN [result |-> "returned", code |-> 3]
    ELSE IF e = "HTTPError" THEN [result |-> "returned", code |-> 4]
    ELSE IF e = "KeyboardInterrupt" THEN [result |-> "returned", code |-> 130]
    ELSE [result |-> "raised", code |-> 0]

\* the try block is left by a return or an exception: the finally clause,
\* lines 199-201, begins with the monitor
Leave(r) ==
    /\ result' = r.result
    /\ code' = r.code
    /\ lpc' = "terminate"
    /\ cleaning' = "monitor"
    /\ tstep' = "poll"

\* terminate_proc has returned: line 201 follows line 200, main() ends after it
NextChild ==
    /\ tstep' = "poll"
    /\ IF cleaning = "monitor"
       THEN cleaning' = "ollama" /\ lpc' = "terminate"
       ELSE cleaning' = cleaning /\ lpc' = "done"

InitLauncher == Init /\ RootPid \in live /\ ~fileExists

\* lines 139-145
PopenOllama ==
    /\ lpc = "popen_ollama"
    /\ \E started \in BOOLEAN :
          IF started
          THEN /\ ollama_proc' = "Popen"
               /\ child' = [child EXCEPT !["ollama"] = "running"]
               /\ lpc' = "poll_ready"
               /\ UNCHANGED <<cleaning, tstep, result, code>>
          ELSE /\ Leave(MainExcept("OSError"))
               /\ UNCHANGED <<ollama_proc, child>>
    /\ UNCHANGED <<monitor_proc, readyAnswered, monitorArg, termLog, killed>>
    /\ UNCHANGED monitorVars

\* lines 147-149: only the ollama child, while it runs, answers on the port
WaitReady ==
    /\ lpc = "poll_ready"
    /\ \E got200 \in BOOLEAN :
          /\ got200 => child["ollama"] = "running"
          /\ IF WaitForOllamaReady(got200)
             THEN /\ readyAnswered' = TRUE
                  /\ lpc' = "popen_monitor"
                  /\ UNCHANGED <<cleaning, tstep, result, code>>
             ELSE /\ Leave([result |-> "returned", code |-> 2])
                  /\ UNCHANGED readyAnswered
    /\ UNCHANGED <<ollama_proc, monitor_proc, child, monitorArg, termLog, killed>>
    /\ UNCHANGED monitorVars

\* lines 152-165: the pid handed over is os.getpid(), the launcher's own
PopenMonitor ==
    /\ lpc = "popen_monitor"
    /\ \E started \in BOOLEAN :
          IF started
          THEN /\ monitor_proc' = "Popen"
               /\ child' = [child EXCEPT !["monitor"] = "running"]
               /\ monitorArg' = RootPid
               /\ lpc' = "idle_warmup"
               /\ UNCHANGED <<cleaning, tstep, result, code>>
          ELSE /\ Leave(MainExcept("OSError"))
               /\ UNCHANGED <<monitor_proc, child, monitorArg>>
    /\ UNCHANGED <<ollama_proc, readyAnswered, termLog, killed>>
    /\ UNCHANGED monitorVars

\* lines 168-170
IdleWarmup ==
    /\ lpc = "idle_warmup"
    /\ lpc' = "ask"
    /\ UNCHANGED <<ollama_proc, monitor_proc, child, cleaning, tstep, result, code,
                   readyAnswered, monitorArg, termLog, killed>>
    /\ UNCHANGED monitorVars

\* lines 173-175: ask_once returns, or raises out of requests
AskOnce ==
    /\ lpc = "ask"
    /\ \E o \in {"ok", "ConnectionError", "HTTPError", "ReadTimeout"} :
          IF o = "ok"
          THEN lpc' = "idle_after" /\ UNCHANGED <<cleaning, tstep, result, code>>
          ELSE Leave(MainExcept(o))
    /\ UNCHANGED <<ollama_proc, monitor_proc, child,
                   readyAnswered, monitorArg, termLog, killed>>
    /\ UNCHANGED monitorVars

\* lines 183-188
IdleAfter ==
    /\ lpc = "idle_after"
    /\ Leave([result |-> "returned", code |-> 0])
    /\ UNCHANGED <<ollama_proc, monitor_proc, child,
                   readyAnswered, monitorArg, termLog, killed>>
    /\ UNCHANGED monitorVars

\* terminate_proc, lines 93-97: nothing to do for None or for a child that has
\* exited; else terminate() is sent
TermPoll ==
    /\ lpc = "terminate" /\ tstep = "poll"
    /\ LET p == IF cleaning = "monitor" THEN monitor_proc ELSE ollama_proc
       IN IF p = "None" \/ child[cleaning] = "exited"
          THEN NextChild /\ UNCHANGED <<child, termLog>>
          ELSE /\ child' = [child EXCEPT ![cleaning] = "terminating"]
               /\ termLog' = Append(termLog, cleaning)
               /\ tstep' = "wait"
               /\ UNCHANGED <<lpc, cleaning>>
    /\ UNCHANGED <<ollama_proc, monitor_proc, result, code,
                   readyAnswered, monitorArg, killed>>
    /\ UNCHANGED monitorVars

\* terminate_proc, lines 98-101: the child exits within the 3 seconds, or the
\* wait times out and kill() is sent
TermWait ==
    /\ lpc = "terminate" /\ tstep = "wait"
    /\ \E inTime \in BOOLEAN :
          /\ child[cleaning] = "exited" => inTime
          /\ killed' = IF inTime THEN killed ELSE killed \cup {cleaning}
    /\ child' = [child EXCEPT ![cleaning] = "exited"]
    /\ NextChild
    /\ UNCHANGED <<ollama_proc, monitor_proc, result, code,
                   readyAnswered, monitorArg, termLog>>
    /\ UNCHANGED monitorVars

\* SIGINT reaches the launcher. In the try block line 196 catches the
\* KeyboardInterrupt and the finally clause runs; in the finally clause
\* nothing catches it (terminate_proc catches Exception), main() is left.
LauncherInterrupt ==
    /\ \/ lpc \in TryPcs /\ Leave(MainExcept("KeyboardInterrupt"))
       \/ /\ lpc = "terminate"
          /\ lpc' = "done"
          /\ result' = "raised"
          /\ UNCHANGED <<code, cleaning, tstep>>
    /\ UNCHANGED <<ollama_proc, monitor_proc, child,
                   readyAnswered, monitorArg, termLog, killed>>
    /\ UNCHANGED monitorVars

\* a child exits by itself, or at last obeys the terminate() it was sent
ChildExits ==
    /\ \E c \in Children :
          /\ child[c] \in {"running", "terminating"}
          /\ child' = [child EXCEPT ![c] = "exited"]
    /\ UNCHANGED <<lpc, ollama_proc, monitor_proc, cleaning, tstep, result, code,
                   readyAnswered, monitorArg, termLog, killed>>
    /\ UNCHANGED monitorVars

NextLauncher ==
    \/ PopenOllama
    \/ WaitReady
    \/ PopenMonitor
    \/ IdleWarmup
    \/ AskOnce
    \/ IdleAfter
    \/ TermPoll
    \/ TermWait
    \/ LauncherInterrupt
    \/ ChildExits

SpecLauncher == InitLauncher /\ [][NextLauncher]_vars

\* ================================================================= claims
LastRow(b) == b[Len(b)]
Pending(b) == [i \in 1..Len(b) |-> Stored(b[i])]
\* what the file holds once the buffer has been flushed
Written == disk \o Pending(buffer)
IsPrefix(a, b) == Len(a) <= Len(b) /\ \A i \in 1..Len(a) : b[i] = a[i]
Sampled == {"gpu", "gpumem", "write", "flush"}

\* C1 (as claimed): once the root process has disappeared, the loop stops
\* with "Process ended." and appends no row: a tick that begins after the
\* root is gone never gets as far as a written row.
C1_NoRowAfterRootGone == ~(pc = "flush" /\ rootGone)

\* C2 (as claimed): when monitor() has opened the log, a path that did not
\* exist holds the header alone, and a path that existed still holds the rows
\* it had, with a single header.
C2_ExistingRowsKept ==
    pc = "warmup" =>
        IF atCall.exists
        THEN IsPrefix(atCall.rows, Written) /\ Cardinality(Headers(Written)) = 1
        ELSE fileExists /\ Written = <<Stored(Header)>>

\* C2 (amended): monitor() opens the path for writing whether or not it
\* exists, so what the file held is dropped: the file holds at most one header,
\* as its first row (exactly one once the buffer is flushed), and only rows of
\* this run after it; right after the open it is the header alone.
C2_TruncatesAndWritesHeaderOnce ==
    root # NoPid =>
        /\ Headers(disk) \subseteq {1}
        /\ pc # "killed" => Headers(Written) = {1}
        /\ \A i \in 1..Len(Written) : Written[i].run = ThisRun
        /\ pc = "warmup" => (fileExists /\ Written = <<Stored(Header)>>)

C2_Witness ==
    pc = "warmup" /\ atCall.exists /\ atCall.rows # <<>> /\ disk = <<>> /\ buffer = <<Header>>

\* C3: the data rows readable from disk are as many as the ticks completed,
\* at every point of the loop and when the monitor process is killed; between
\* two ticks nothing waits in the buffer and the file is the header and one row
\* per tick.
C3_DiskRowsEqualTicks ==
    /\ (root # NoPid /\ pc \in LoopPcs \cup {"killed"}) =>
           Cardinality(DataRows(disk)) = ticks
    /\ pc = "sleep" =>
           (buffer = <<>> /\ Len(disk) = ticks + 1 /\ IsHeader(disk[1]))

C3_Witness == pc = "killed" /\ ticks >= 1 /\ Len(disk) = ticks + 1

\* C4: when the root pid did not resolve at the call, the monitor has
\* reported "Target process not found.", is stopped, has run no tick, and the
\* output path is as it was: not created, not truncated, not written.
C4_NotFoundWritesNothing ==
    (atCall.called /\ ~atCall.rootLive) =>
        /\ pc = "stopped"
        /\ report = "Target process not found."
        /\ ticks = 0
        /\ buffer = <<>>
        /\ disk = atCall.rows
        /\ fileExists = atCall.exists

C4_Witness ==
    atCall.called /\ ~atCall.rootLive /\ atCall.exists /\ pc = "stopped" /\ Len(disk) = 2

\* C5 (as claimed): in the row a tick writes, num_procs is at most the size
\* of the tree snapshot, the same processes are in the CPU, the RSS and the
\* thread sum, num_procs is their number, and no process with a failed read is
\* in any sum.
C5_CountMatchesSums ==
    pc = "flush" =>
        LET r == LastRow(buffer) IN
        /\ r.num_procs <= Len(procs)
        /\ InSum(r.cpu_total_percent) = InSum(r.threads_total)
        /\ InSum(r.rss_total_mb) = InSum(r.threads_total)
        /\ r.num_procs = Cardinality(InSum(r.cpu_total_percent))
        /\ readFailed \cap InSum(r.cpu_total_percent) = {}

\* C6: no read failure ends the tick; a process that was gone when its read
\* began is in no sum and not counted, every process whose reads succeeded is
\* in every sum and counted (so, when the exited processes are the only
\* failures, the sums are those of the remaining processes), and the row
\* written is made of these sums. Each tick starts its sums from zero over
\* the tree it resolved.
C6_ExitedProcessExcluded ==
    /\ exc \in {"none", "KeyboardInterrupt"}
    /\ pc \in Sampled =>
        LET rest == Range(procs) \ readFailed IN
        /\ deadAtRead \subseteq readFailed
        /\ alive = Cardinality(rest)
        /\ InSum(threads_sum) = rest
        /\ rest \subseteq InSum(cpu_sum) /\ rest \subseteq InSum(rss_sum_mb)
        /\ deadAtRead \cap (InSum(cpu_sum) \cup InSum(rss_sum_mb)) = {}
        /\ readFailed = deadAtRead => (InSum(cpu_sum) = rest /\ InSum(rss_sum_mb) = rest)
    /\ pc = "flush" =>
        LET r == LastRow(buffer) IN
        /\ r.num_procs = alive /\ r.cpu_total_percent = cpu_sum
        /\ r.rss_total_mb = rss_sum_mb /\ r.threads_total = threads_sum

C6_Witness ==
    /\ pc = "flush" /\ Len(procs) = 2 /\ Cardinality(deadAtRead) = 1
    /\ LastRow(buffer).num_procs = 1

\* C7: an interrupt that reaches the monitor inside the loop leaves it
\* stopped with "Stopped by user."; and a stopped monitor stays stopped, its
\* file and its report unchanged.
C7_InterruptStops ==
    /\ []((exc = "KeyboardInterrupt" /\ excAt \in LoopPcs) =>
            (pc = "stopped" /\ report = "Stopped by user."))
    /\ [][pc = "stopped" =>
            (pc' = "stopped" /\ disk' = disk /\ buffer' = buffer /\ ticks' = ticks
             /\ report' = report /\ fileExists' = fileExists)]_vars

C7_Witness ==
    pc = "stopped" /\ exc = "KeyboardInterrupt" /\ excAt = "sleep" /\ ticks >= 1

\* C8: when the detection at module start got no device handle, the GPU is
\* marked unavailable, no NVML query is made afterwards, and the three GPU
\* cells of every row written are empty, not a number.
C8_NoGpuFieldsEmpty ==
    (pc # "import" /\ ~handle) =>
        /\ ~GPU_AVAILABLE
        /\ ~nvmlCalls
        /\ gpu_util = Empty /\ gpu_mem = Empty /\ proc_tree_gpu_mem = Empty
        /\ \A i \in DataRows(buffer) :
              /\ buffer[i].gpu_util = Empty
              /\ buffer[i].gpu_mem_used_mb = Empty
              /\ buffer[i].proc_tree_gpu_mem_mb = Empty

C8_Witness ==
    pc = "flush" /\ ~handle /\ ticks = 1 /\ LastRow(buffer).gpu_util = Empty

\* C9: the tree-attributed GPU memory is the sum of usedGpuMemory over the
\* entries of the listings that did not raise whose pid is in the tree's pid
\* set and whose usage is neither unknown nor 0, in MB; it is empty when there
\* is no such entry (or no GPU), and never a numeric zero.
Qualifying(lst, pids) ==
    IF lst.raises THEN {}
    ELSE {i \in 1..Len(lst.entries) :
             /\ lst.entries[i].pid \in pids
             /\ lst.entries[i].usedGpuMemory # NoneVal
             /\ lst.entries[i].usedGpuMemory # 0}

RECURSIVE UsedTotal(_, _)
UsedTotal(es, I) ==
    IF I = {} THEN 0
    ELSE LET i == Min(I) IN es[i].usedGpuMemory + UsedTotal(es, I \ {i})

C9_TreeGpuMemIsSum ==
    pc = "write" =>
        LET qc == Qualifying(qCompute, Range(procs))
            qg == Qualifying(qGraphics, Range(procs))
        IN /\ proc_tree_gpu_mem =
                 IF ~GPU_AVAILABLE \/ (qc = {} /\ qg = {}) THEN Empty
                 ELSE Num(UsedTotal(qCompute.entries, qc) + UsedTotal(qGraphics.entries, qg),
                          BytesPerMB)
           /\ ~IsZero(proc_tree_gpu_mem)

C9_Witness ==
    /\ pc = "write" /\ GPU_AVAILABLE /\ qCompute.raises
    /\ Qualifying(qGraphics, Range(procs)) # {}
    /\ proc_tree_gpu_mem = Num(BytesPerMB, BytesPerMB)

\* C10: nothing but an interrupt or a "no such process" condition takes the
\* monitor out of the loop: an exception that reached it inside the loop left
\* it stopped, never crashed. A failed GPU query leaves both device cells of
\* the tick empty, a failed read leaves the process uncounted, a failed
\* enumeration leaves the tree without descendants, and the tick goes on.
C10_OnlyTwoWaysOut ==
    /\ excAt \in LoopPcs =>
          (pc = "stopped" /\ exc \in {"NoSuchProcess", "KeyboardInterrupt"})
    /\ pc = "crashed" => excAt = "warmup"
    /\ ("gpu_overall" \in failures /\ pc \in {"gpumem", "write", "flush"}) =>
          (gpu_util = Empty /\ gpu_mem = Empty)
    /\ ("read" \in failures /\ pc \in Sampled) => alive < Len(procs)
    /\ ("enumeration" \in failures /\ pc \in Sampled \cup {"sample"}) => Len(procs) <= 1

C10_Witness == pc = "enumerate" /\ ticks >= 1 /\ "gpu_overall" \in failures

\* C11: every handle whose cpu_percent reading is part of a row's CPU sum had
\* a warm-up call before: the reading that counts is never the first call on
\* the handle, for handles of the first listing and of later ones alike.
C11_WarmedBeforeCounted ==
    pc \in Sampled => \A p \in InSum(cpu_sum) : cpuCalls[p] = "many"

\* p is below rt in the table: its chain of live parents leads to rt
RECURSIVE Under(_, _)
Under(p, rt) ==
    /\ p \in live
    /\ parent[p] # NoPid
    /\ (parent[p] = rt \/ Under(parent[p], rt))

NoTwoAlike(s) == \A i, j \in 1..Len(s) : s[i] = s[j] => i = j

\* C12: on every process table the resolver returns a list without two handles
\* of one pid, made of the root and of processes that were below it when the
\* children were listed, all of them running when inspected: a process that
\* died since the listing is left out; when the listing of the children fails
\* no descendant is returned; a root that is gone when the resolver is called
\* gives the empty list; and nothing is raised.
C12_TreeResolved ==
    /\ [][(pc = "enumerate" /\ pc' = "filter") =>
             \A i \in 1..Len(procs') :
                \/ procs'[i] = root
                \/ Under(procs'[i], root) /\ "enumeration" \notin failures']_vars
    /\ [][(pc = "filter" /\ pc' \in {"sample", "gpu"}) =>
             /\ NoTwoAlike(procs')
             /\ Range(procs') = Range(procs) \cap live
             /\ rootGone => procs' = <<>>]_vars
    /\ [](exc = "none" /\ pc \notin EndPcs)

\* the resolver has returned the root, having dropped a child that died
\* between the listing and the check, a live process outside the tree being
\* left out too
C12_Witness ==
    /\ pc = "sample" /\ idx = 1
    /\ "raced" \in failures
    /\ root \in Range(procs)
    /\ \E p \in live : p \notin Range(procs)

\* C13: the launcher starts the monitor only after the ollama child answered
\* the readiness poll, and hands it its own pid; however main() ends once a
\* child was started, terminate() went to the started children that still
\* ran, to the monitor before ollama, kill() went only to a child that
\* outlasted the wait, and no started child is still running.
C13_ChildrenCleanedUp ==
    /\ monitor_proc = "Popen" => readyAnswered /\ monitorArg = RootPid
    /\ termLog \in {<<>>, <<"monitor">>, <<"ollama">>, <<"monitor", "ollama">>}
    /\ killed \subseteq Range(termLog)
    /\ lpc = "done" => \A c \in Children : child[c] \in {"unstarted", "exited"}

====
